---- MODULE Spec2Model ----
(***************************************************************************)
(* CSUN Location Quiz (src/script.js): the quiz state machine, the bounds  *)
(* test, the round timer and the single persisted best time.               *)
(*                                                                         *)
(* Conventions.  Coordinates are degrees scaled by 10^6 (integers).  A JS  *)
(* string that the code parses (the localStorage value) is a tuple of      *)
(* one-character strings; a string that is only displayed is a TLA+        *)
(* string.  A value that may be null, undefined or NaN is a tuple: <<>>     *)
(* for the absent value, <<v>> for the value v.                            *)
(***************************************************************************)
EXTENDS Integers, Sequences, FiniteSets, TLC

VARIABLES
    map,           \* line 6: undefined until initMap has built the map
    state,         \* lines 76-81: [index, correct, startedAtMs, timerId]
    currentRect,   \* line 9: the feedback rectangle on the map, or null
    clickMarker,   \* line 10: the marker at the clicked point, or null
    toastTimer,    \* line 333: "null", then "pending" while the timeout is armed, else "fired"
    flashTimers,   \* pending flashRect timeouts, by the rectangle they hold
    intervals,     \* ids of the setInterval timers the browser has armed
    localStorage,  \* the value stored under BEST_KEY, or null
    now,           \* Date.now(), in milliseconds
    dom,           \* text of #promptText, #qCount, #score, #timer, #best, #toast
    guesses,       \* history: the first TOTAL_QUESTIONS points guessed since the last reset
    late,          \* history: how many guesses came after those (counted up to MaxLate)
    threw,         \* history: some handler ended by an uncaught exception
    input,         \* argument of a function applied on its own (function specifications)
    output         \* its result

vars == <<map, state, currentRect, clickMarker, toastTimer, flashTimers,
          intervals, localStorage, now, dom, guesses, late, threw, input, output>>

null == <<>>
undefined == <<>>
NaN == <<>>
Some(v) == <<v>>
ValueOf(o) == o[1]

-----------------------------------------------------------------------------
(* Game constants, lines 13-73 *)

TOTAL_QUESTIONS == 5

LOCATIONS ==
    << [name |-> "Black House",
        bounds |-> [north |-> 34244278, south |-> 34244069,
                    east |-> -118533368, west |-> -118533626]],
       [name |-> "Chaparral Hall",
        bounds |-> [north |-> 34238634, south |-> 34237832,
                    east |-> -118526679, west |-> -118527306]],
       [name |-> "Matador Track Stadium",
        bounds |-> [north |-> 34247868, south |-> 34246043,
                    east |-> -118525570, west |-> -118527300]],
       [name |-> "Sierra Hall",
        bounds |-> [north |-> 34238561, south |-> 34238056,
                    east |-> -118529978, west |-> -118531517]],
       [name |-> "Bookstein Hall",
        bounds |-> [north |-> 34242471, south |-> 34241471,
                    east |-> -118529919, west |-> -118531159]] >>

\* LOCATIONS[i] of the source (0-based); undefined past the end of the array
LocationAt(i) ==
    IF i + 1 \in DOMAIN LOCATIONS THEN Some(LOCATIONS[i + 1]) ELSE undefined

TimerIntervalMs == 250   \* line 296
MsPerSecond == 1000      \* line 306
SecondsPerMinute == 60   \* lines 310-311
PadLength == 2           \* lines 310-311

-----------------------------------------------------------------------------
(* Bounds of the model *)

MaxSeconds == 1          \* the clock runs this many seconds past page load
MaxLate == 1             \* guesses counted after the last question of a round
MaxCoord == 1            \* function specifications: coordinates in -MaxCoord..MaxCoord
MaxRawLen == 3           \* function specifications: length of a stored string
MaxFormatSeconds == 5999 \* function specifications: largest argument of formatTime

ClockStepMs == 2 * TimerIntervalMs
PageLoadMs == MsPerSecond
ClockEndMs == PageLoadMs + MaxSeconds * MsPerSecond

-----------------------------------------------------------------------------
(* JavaScript primitives the code uses *)

Max(a, b) == IF a >= b THEN a ELSE b
Min(a, b) == IF a <= b THEN a ELSE b

\* a % b of JavaScript: the remainder has the sign of the dividend
JsRem(a, b) == IF a >= 0 THEN a % b ELSE -((-a) % b)

DigitChars == <<"0", "1", "2", "3", "4", "5", "6", "7", "8", "9">>
Digits == {DigitChars[i] : i \in DOMAIN DigitChars}
DigitValue(c) == (CHOOSE i \in DOMAIN DigitChars : DigitChars[i] = c) - 1

\* String(n) for an integer n, as characters
RECURSIVE NatChars(_)
NatChars(n) ==
    IF n < 10 THEN <<DigitChars[n + 1]>>
    ELSE NatChars(n \div 10) \o <<DigitChars[(n % 10) + 1]>>
StringOf(n) == IF n < 0 THEN <<"-">> \o NatChars(-n) ELSE NatChars(n)

\* s.padStart(len, fill) for a one-character fill
RECURSIVE padStart(_, _, _)
padStart(s, len, fill) ==
    IF Len(s) >= len THEN s ELSE padStart(<<fill>> \o s, len, fill)

\* the characters as one displayed string
RECURSIVE Text(_)
Text(s) == IF s = <<>> THEN "" ELSE Head(s) \o Text(Tail(s))

\* Number(raw) on a string: white space is trimmed, the empty string is 0,
\* a run of decimal digits is its value, anything else is NaN.  (Signs,
\* fractions, exponents and radix prefixes need characters outside RawChars.)
RECURSIVE Trim(_)
Trim(s) ==
    IF s = <<>> THEN s
    ELSE IF Head(s) = " " THEN Trim(Tail(s))
    ELSE IF s[Len(s)] = " " THEN Trim(SubSeq(s, 1, Len(s) - 1))
    ELSE s
RECURSIVE DecimalValue(_)
DecimalValue(s) ==
    IF s = <<>> THEN 0
    ELSE 10 * DecimalValue(SubSeq(s, 1, Len(s) - 1)) + DigitValue(s[Len(s)])
Number(raw) ==
    LET t == Trim(raw) IN
    IF t = <<>> THEN Some(0)
    ELSE IF \A i \in DOMAIN t : t[i] \in Digits THEN Some(DecimalValue(t))
    ELSE NaN
NumberIsFinite(n) == n # NaN

-----------------------------------------------------------------------------
(* Bounds logic, lines 262-285 *)

\* variant: Math.max and Math.min exchanged for the longitudes
normalizeBoundsLngExchanged(b) ==
    [north |-> Max(b.north, b.south),
     south |-> Min(b.north, b.south),
     east |-> Min(b.east, b.west),
     west |-> Max(b.east, b.west)]

normalizeBounds(b) ==
    [north |-> Max(b.north, b.south),
     south |-> Min(b.north, b.south),
     east |-> Max(b.east, b.west),
     west |-> Min(b.east, b.west)]

\* A coordinate that is NaN, or undefined, which a comparison converts to NaN.
\* It stands below every number of degrees, here in millionths.
NaNDegrees == 0 - 360 * 1000000
IsNaNDegrees(x) == x = NaNDegrees

\* the relational operators of lines 280-283: false when an operand is NaN
Lt(a, b) == ~IsNaNDegrees(a) /\ ~IsNaNDegrees(b) /\ a < b
Gt(a, b) == ~IsNaNDegrees(a) /\ ~IsNaNDegrees(b) /\ a > b
Lte(a, b) == ~IsNaNDegrees(a) /\ ~IsNaNDegrees(b) /\ a <= b
Gte(a, b) == ~IsNaNDegrees(a) /\ ~IsNaNDegrees(b) /\ a >= b

\* variant: the northern edge excluded
InBoxNorthExclusive(lat, lng, bb) ==
    /\ Lt(lat, bb.north)
    /\ Gte(lat, bb.south)
    /\ Lte(lng, bb.east)
    /\ Gte(lng, bb.west)

\* variant: inside unless beyond an edge
InBoxUnlessBeyond(lat, lng, bb) ==
    ~(Gt(lat, bb.north) \/ Lt(lat, bb.south) \/ Gt(lng, bb.east) \/ Lt(lng, bb.west))

InBox(lat, lng, bb) ==
    /\ Lte(lat, bb.north)
    /\ Gte(lat, bb.south)
    /\ Lte(lng, bb.east)
    /\ Gte(lng, bb.west)

\* variant: the box used as given
pointInBoundsAsGiven(latLng, b) == InBox(latLng.lat, latLng.lng, b)

pointInBounds(latLng, b) ==
    LET bb == normalizeBounds(b)
        lat == latLng.lat
        lng == latLng.lng
    IN InBox(lat, lng, bb)

-----------------------------------------------------------------------------
(* Timer and high score, lines 289-329 *)

\* elapsedSeconds, read from state st when Date.now() is t
ElapsedAt(st, t) ==
    IF st.startedAtMs = null THEN 0
    ELSE (t - ValueOf(st.startedAtMs)) \div MsPerSecond

elapsedSeconds == ElapsedAt(state, now)

\* variant: the seconds not padded
formatTimeSecondsUnpadded(totalSeconds) ==
    LET mm == padStart(StringOf(totalSeconds \div SecondsPerMinute), PadLength, "0")
        ss == StringOf(JsRem(totalSeconds, SecondsPerMinute))
    IN Text(mm) \o ":" \o Text(ss)

formatTime(totalSeconds) ==
    LET mm == padStart(StringOf(totalSeconds \div SecondsPerMinute), PadLength, "0")
        ss == padStart(StringOf(JsRem(totalSeconds, SecondsPerMinute)), PadLength, "0")
    IN Text(mm) \o ":" \o Text(ss)

\* getBestSeconds, with raw = localStorage.getItem(BEST_KEY)
ParseBest(raw) ==
    IF raw = null \/ ValueOf(raw) = <<>> THEN null
    ELSE LET n == Number(ValueOf(raw)) IN IF NumberIsFinite(n) THEN n ELSE null
getBestSeconds == ParseBest(localStorage)

\* the text renderBest puts in #best (the source shows an em dash)
BestText(best) == IF best = null THEN "-" ELSE formatTime(ValueOf(best))

\* variant: clearInterval left out
AfterStopTimerStillArmed(armed, timerId) == armed

\* stopTimer: the interval armed under state.timerId is cleared
AfterStopTimer(armed, timerId) ==
    IF timerId # null THEN armed \ {ValueOf(timerId)} ELSE armed

\* variant: stopping forgets the start time as well
StoppedAndErased(st) == [st EXCEPT !.timerId = null, !.startedAtMs = null]

\* stopTimer, line 301: what it assigns in state
Stopped(st) == [st EXCEPT !.timerId = null]

\* setInterval returns an id no armed timer has
NewTimerId(armed) == CHOOSE i \in 1..(Cardinality(armed) + 1) :
    /\ i \notin armed
    /\ \A j \in 1..(i - 1) : j \in armed

\* setBestSeconds: the value stored under BEST_KEY
setBestSeconds(seconds) == Some(StringOf(seconds))

\* variant: every finished round taken as a new best
IsNewBestAlways(best, seconds) == TRUE

\* line 176: the condition under which a finished round is a new best
IsNewBest(best, seconds) == best = null \/ seconds < ValueOf(best)

-----------------------------------------------------------------------------
(* Visual feedback, lines 212-254 *)

\* clearFeedback takes the rectangle off the map; a flashRect timeout that
\* holds it stays armed and now holds a detached rectangle
AfterClearFeedback(timers) ==
    IF "current" \in timers THEN (timers \ {"current"}) \cup {"detached"} ELSE timers

FillOpacity == 18        \* line 233, in 1/100
FlashOpacity == 35       \* line 252, in 1/100

\* drawFeedback: the rectangle as flashRect leaves it
FeedbackRect(bounds, isCorrect) ==
    [bounds |-> normalizeBounds(bounds),
     color |-> IF isCorrect THEN "#1f7a1f" ELSE "#b00020",
     fillOpacity |-> FlashOpacity]

-----------------------------------------------------------------------------
(* Input sets *)

InBlackHouse == [lat |-> 34244100, lng |-> -118533500]
ChaparralCorner == [lat |-> 34238634, lng |-> -118526679]   \* its north-east corner
InStadium == [lat |-> 34247000, lng |-> -118526000]
InSierra == [lat |-> 34238300, lng |-> -118530500]
InBookstein == [lat |-> 34242000, lng |-> -118530500]
ViewCenter == [lat |-> 34241050, lng |-> -118528000]        \* FIXED_VIEW.center, in no building

\* each point is right for one question and wrong for the others
GuessPoints == {InBlackHouse, ChaparralCorner}
RoundPoints == GuessPoints \cup {InStadium, InSierra, InBookstein, ViewCenter}

\* guesses whose lat() or lng() gives NaN or undefined
NoLat == [lat |-> NaNDegrees, lng |-> InBlackHouse.lng]
NoLng == [lat |-> InBlackHouse.lat, lng |-> NaNDegrees]
NoLatLng == [lat |-> NaNDegrees, lng |-> NaNDegrees]
NaNPoints == {NoLat, NoLng, NoLatLng}

\* what localStorage may hold under BEST_KEY when the page loads
StoredAtLoad == {null, Some(<<" ">>), Some(<<"a">>), Some(<<"1">>)}

-----------------------------------------------------------------------------
(* State after the script has loaded, lines 6-10, 76-81, 333 *)

NoCall == <<>>

PageLoaded ==
    /\ map = undefined
    /\ state = [index |-> 0, correct |-> 0, startedAtMs |-> null, timerId |-> null]
    /\ currentRect = null
    /\ clickMarker = null
    /\ toastTimer = "null"
    /\ flashTimers = {}
    /\ intervals = {}
    /\ now = PageLoadMs
    /\ dom = [promptText |-> "", qCount |-> "", score |-> "", timer |-> "",
              best |-> "", toast |-> "", toastShown |-> FALSE]
    /\ guesses = <<>>
    /\ late = 0
    /\ threw = FALSE

Init ==
    /\ PageLoaded
    /\ localStorage \in StoredAtLoad
    /\ input = NoCall
    /\ output = NoCall

Running == map # undefined /\ state.index < TOTAL_QUESTIONS
Finished == map # undefined /\ state.index >= TOTAL_QUESTIONS

-----------------------------------------------------------------------------
(* resetGame, lines 130-139, with clearFeedback, startTimer, updateHeader,  *)
(* setPrompt and showToast; bestText is what #best shows afterwards.        *)

\* variant: line 133 left out
ResetStateKeepsCorrect(startedAtMs, timerId) ==
    [state EXCEPT !.index = 0, !.startedAtMs = Some(startedAtMs),
                  !.timerId = Some(timerId)]

\* lines 132-134 and startTimer, lines 291 and 294
ResetState(startedAtMs, timerId) ==
    [index |-> 0, correct |-> 0, startedAtMs |-> Some(startedAtMs),
     timerId |-> Some(timerId)]

\* variant: the prompt names the location after the one in turn
setPromptOneAhead(index) ==
    LET q == LocationAt(index + 1) IN IF q # undefined THEN ValueOf(q).name ELSE "Done"

\* setPrompt, lines 195-196: the text put in #promptText
setPrompt(index) ==
    LET q == LocationAt(index) IN IF q # undefined THEN ValueOf(q).name ELSE "Done"

\* updateHeader, line 203: the text put in #qCount
QCountText(index) == Text(StringOf(index + 1)) \o " / 5"

ResetBody(bestText) ==
    LET armed == AfterStopTimer(intervals, state.timerId)
        id == NewTimerId(armed)
    IN
    /\ currentRect' = null
    /\ clickMarker' = null
    /\ flashTimers' = AfterClearFeedback(flashTimers)
    /\ state' = ResetState(now, id)
    /\ intervals' = armed \cup {id}
    /\ dom' = [promptText |-> setPrompt(0),
               qCount |-> QCountText(0),
               score |-> Text(StringOf(0)),
               timer |-> "00:00",
               best |-> bestText,
               toast |-> "Game started. Double-click the correct building.",
               toastShown |-> TRUE]
    /\ toastTimer' = "pending"
    /\ guesses' = <<>>
    /\ late' = 0
    /\ UNCHANGED <<localStorage, now, threw, input, output>>

\* window.initMap, lines 87-125: renderBest, the map, resetGame, the listeners
InitMap ==
    /\ map = undefined
    /\ map' = Some("Map")
    /\ ResetBody(BestText(getBestSeconds))

\* click on #resetBtn, line 124
ResetGame ==
    /\ map # undefined
    /\ ResetBody(dom.best)
    /\ UNCHANGED map

-----------------------------------------------------------------------------
(* handleAnswer, lines 144-165, with drawFeedback, flashRect, showToast,    *)
(* finishGame (lines 170-186), updateHeader and setPrompt                  *)

\* variant: line 146 left out
NoLocationUnguarded(loc) == FALSE

\* line 146: if (!loc) return
NoLocation(loc) == loc = undefined

\* variant: line 156 left out
NextIndexStuck(i) == i

\* line 156
NextIndex(i) == i + 1

\* variant: every guess scores
ScoreEveryGuess(correct, isCorrect) == correct + 1

\* variant: the round ended one question early
RoundOverEarly(index) == index >= TOTAL_QUESTIONS - 1

\* line 158: the round is over once the index has reached the total
RoundOver(index) == index >= TOTAL_QUESTIONS

\* line 149
Score(correct, isCorrect) == IF isCorrect THEN correct + 1 ELSE correct

Recorded(latLng) ==
    IF Len(guesses) < TOTAL_QUESTIONS THEN Append(guesses, latLng) ELSE guesses
CountedLate ==
    IF Len(guesses) < TOTAL_QUESTIONS \/ late >= MaxLate THEN late ELSE late + 1

FinishedToast(correct, seconds, newBest) ==
    "Finished: " \o Text(StringOf(correct)) \o "/5 in " \o formatTime(seconds)
        \o (IF newBest THEN " (NEW BEST)" ELSE "")

HandleAnswer(latLng) ==
    LET loc == LocationAt(state.index) IN
    /\ map # undefined
    /\ guesses' = Recorded(latLng)
    /\ late' = CountedLate
    /\ UNCHANGED <<map, now, input, output>>
    /\ IF NoLocation(loc)
       THEN UNCHANGED <<state, currentRect, clickMarker, toastTimer, flashTimers,
                        intervals, localStorage, dom, threw>>
       ELSE IF loc = undefined
       THEN \* loc.bounds of undefined: a TypeError ends the handler
            /\ threw' = TRUE
            /\ UNCHANGED <<state, currentRect, clickMarker, toastTimer, flashTimers,
                           intervals, localStorage, dom>>
       ELSE
       LET bounds == ValueOf(loc).bounds
           isCorrect == pointInBounds(latLng, bounds)
           correct == Score(state.correct, isCorrect)
           index == NextIndex(state.index)
           stopped == Stopped(state)
           seconds == ElapsedAt(stopped, now)
           best == getBestSeconds
           newBest == IsNewBest(best, seconds)
       IN
       /\ currentRect' = Some(FeedbackRect(bounds, isCorrect))
       /\ clickMarker' = Some(latLng)
       /\ flashTimers' = AfterClearFeedback(flashTimers) \cup {"current"}
       /\ toastTimer' = "pending"
       /\ threw' = threw
       /\ IF RoundOver(index)
          THEN \* finishGame
               /\ intervals' = AfterStopTimer(intervals, state.timerId)
               /\ state' = [stopped EXCEPT !.index = index, !.correct = correct]
               /\ localStorage' = IF newBest THEN setBestSeconds(seconds)
                                  ELSE localStorage
               /\ dom' = [dom EXCEPT
                            !.best = IF newBest
                                     THEN BestText(ParseBest(setBestSeconds(seconds)))
                                     ELSE @,
                            !.toast = FinishedToast(correct, seconds, newBest),
                            !.toastShown = TRUE,
                            !.promptText = "Done. You got " \o Text(StringOf(correct))
                                               \o " out of 5 correct.",
                            !.qCount = "5 / 5"]
          ELSE /\ state' = [state EXCEPT !.index = index, !.correct = correct]
               /\ dom' = [dom EXCEPT
                            !.toast = IF isCorrect THEN "Correct!" ELSE "Wrong!",
                            !.toastShown = TRUE,
                            !.qCount = QCountText(index),
                            !.score = Text(StringOf(correct)),
                            !.promptText = setPrompt(index)]
               /\ UNCHANGED <<intervals, localStorage>>

-----------------------------------------------------------------------------
(* Callbacks of the timers.  A timeout may fire at any moment after it is   *)
(* armed; its delay is not measured against the clock.                      *)

\* variant: the callback takes a new start time
StateAfterTickRestarted(st) == [st EXCEPT !.startedAtMs = Some(now)]

\* the callback of lines 294-296 assigns nothing in state
StateAfterTick(st) == st

\* the interval of startTimer, lines 294-296
Tick ==
    /\ \E id \in intervals :
         dom' = [dom EXCEPT !.timer = formatTime(elapsedSeconds)]
    /\ state' = StateAfterTick(state)
    /\ UNCHANGED <<map, currentRect, clickMarker, toastTimer, flashTimers,
                   intervals, localStorage, now, guesses, late, threw, input, output>>

\* the timeout of showToast, line 338
HideToast ==
    /\ toastTimer = "pending"
    /\ toastTimer' = "fired"
    /\ dom' = [dom EXCEPT !.toastShown = FALSE]
    /\ UNCHANGED <<map, state, currentRect, clickMarker, flashTimers,
                   intervals, localStorage, now, guesses, late, threw, input, output>>

\* the timeout of flashRect, line 253; on a detached rectangle nothing shows
\* (several timeouts on detached rectangles are kept as one)
Unflash(rect) ==
    /\ rect \in flashTimers
    /\ flashTimers' = flashTimers \ {rect}
    /\ currentRect' = IF rect = "current"
                      THEN Some([ValueOf(currentRect) EXCEPT !.fillOpacity = FillOpacity])
                      ELSE currentRect
    /\ UNCHANGED <<map, state, clickMarker, toastTimer, intervals, localStorage,
                   now, dom, guesses, late, threw, input, output>>

\* time passes
AdvanceClock ==
    /\ now + ClockStepMs <= ClockEndMs
    /\ now' = now + ClockStepMs
    /\ UNCHANGED <<map, state, currentRect, clickMarker, toastTimer, flashTimers,
                   intervals, localStorage, dom, guesses, late, threw, input, output>>

-----------------------------------------------------------------------------
(* The page: reset, guess and timer events in any order *)

Guess == \E latLng \in GuessPoints : HandleAnswer(latLng)
UnflashAny == \E rect \in {"current", "detached"} : Unflash(rect)

Next ==
    \/ InitMap
    \/ ResetGame
    \/ Guess
    \/ Tick
    \/ HideToast
    \/ UnflashAny
    \/ AdvanceClock

Spec == Init /\ [][Next]_vars

-----------------------------------------------------------------------------
(* The page loaded in a browser that holds no best time yet *)

EmptyStoreInit ==
    /\ PageLoaded
    /\ localStorage = null
    /\ input = NoCall
    /\ output = NoCall

EmptyStoreSpec == EmptyStoreInit /\ [][Next]_vars

-----------------------------------------------------------------------------
(* Complete rounds over guesses that hit every building, the clock held     *)

RoundGuess == \E latLng \in RoundPoints : HandleAnswer(latLng)

RoundNext ==
    \/ InitMap
    \/ ResetGame
    \/ RoundGuess

RoundSpec == Init /\ [][RoundNext]_vars

-----------------------------------------------------------------------------
(* Rounds in which a guess may lack a coordinate, the clock held             *)

NaNGuess == \E latLng \in NaNPoints \cup {InBlackHouse} : HandleAnswer(latLng)

NaNNext ==
    \/ InitMap
    \/ ResetGame
    \/ NaNGuess

NaNSpec == Init /\ [][NaNNext]_vars

-----------------------------------------------------------------------------
(* The bounds functions applied on their own *)

Coords == (-MaxCoord)..MaxCoord
Boxes == [north : Coords, south : Coords, east : Coords, west : Coords]
Points == [lat : Coords, lng : Coords]

SwapNS(b) == [b EXCEPT !.north = b.south, !.south = b.north]
SwapEW(b) == [b EXCEPT !.east = b.west, !.west = b.east]

GeoInit ==
    /\ PageLoaded
    /\ localStorage = null
    /\ input \in [b : Boxes, p : Points]
    /\ output = NoCall

Return(result) ==
    /\ output' = result
    /\ UNCHANGED <<map, state, currentRect, clickMarker, toastTimer, flashTimers,
                   intervals, localStorage, now, dom, guesses, late, threw, input>>

\* normalizeBounds(b), and normalizeBounds of its result
CallNormalizeBounds ==
    LET bb == normalizeBounds(input.b) IN
    Return(<<"normalizeBounds", bb, normalizeBounds(bb)>>)

CallPointInBounds ==
    Return(<<"pointInBounds", pointInBounds(input.p, input.b)>>)

\* pointInBounds on the box as given and with its edges exchanged
CallPointInBoundsSwapped ==
    Return(<<"swapped", pointInBounds(input.p, input.b),
                        pointInBounds(input.p, SwapNS(input.b)),
                        pointInBounds(input.p, SwapEW(input.b)),
                        pointInBounds(input.p, SwapNS(SwapEW(input.b)))>>)

GeoNext ==
    \/ CallNormalizeBounds
    \/ CallPointInBounds
    \/ CallPointInBoundsSwapped

GeoSpec == GeoInit /\ [][GeoNext]_vars

-----------------------------------------------------------------------------
(* formatTime applied on its own *)

FormatInit ==
    /\ PageLoaded
    /\ localStorage = null
    /\ input \in 0..MaxFormatSeconds
    /\ output = NoCall

CallFormatTime == Return(<<"formatTime", formatTime(input)>>)

FormatNext == CallFormatTime

FormatSpec == FormatInit /\ [][FormatNext]_vars

-----------------------------------------------------------------------------
(* getBestSeconds and setBestSeconds applied on their own *)

RawChars == {"0", "1", "7", " ", "a"}
RawStrings == UNION {[1..n -> RawChars] : n \in 0..MaxRawLen}
StoredSeconds == {0, 7, 10, 65, 599}

StoreInit ==
    /\ PageLoaded
    /\ localStorage \in {null} \cup {Some(raw) : raw \in RawStrings}
    /\ input = NoCall
    /\ output = NoCall

\* the value read, and the result
CallGetBestSeconds == Return(<<"getBestSeconds", localStorage, getBestSeconds>>)

CallSetBestSeconds ==
    \E seconds \in StoredSeconds :
        /\ localStorage' = setBestSeconds(seconds)
        /\ output' = <<"setBestSeconds", seconds>>
        /\ UNCHANGED <<map, state, currentRect, clickMarker, toastTimer, flashTimers,
                       intervals, now, dom, guesses, late, threw, input>>

StoreNext ==
    \/ CallGetBestSeconds
    \/ CallSetBestSeconds

StoreSpec == StoreInit /\ [][StoreNext]_vars

-----------------------------------------------------------------------------
(* Properties *)

Hi(a, b) == CHOOSE x \in {a, b} : \A y \in {a, b} : x >= y
Lo(a, b) == CHOOSE x \in {a, b} : \A y \in {a, b} : x <= y

\* the point lies in the rectangle spanned by the four values, edges included
Contained(p, b) ==
    /\ Lo(b.north, b.south) <= p.lat /\ p.lat <= Hi(b.north, b.south)
    /\ Lo(b.east, b.west) <= p.lng /\ p.lng <= Hi(b.east, b.west)

\* C1: in every reachable state, whatever the order of reset, guess and timer
\* events, 0 <= correct <= index <= N with N = 5.
C1_ScoreWithinIndex ==
    /\ 0 <= state.correct
    /\ state.correct <= state.index
    /\ state.index <= TOTAL_QUESTIONS

\* a round under way in which every guess so far was right
C1_Witness == state.index = 2 /\ state.correct = 2

\* C2: once exactly N = 5 guesses have followed a reset the quiz is Finished (and
\* not before), and a guess that arrives while it is Finished changes neither
\* index nor correct nor the stored best time, and raises no exception.
C2_Step ==
    /\ map' # undefined =>
          (state'.index >= TOTAL_QUESTIONS <=> Len(guesses') = TOTAL_QUESTIONS)
    /\ Finished /\ Guess =>
          /\ state'.index = state.index
          /\ state'.correct = state.correct
          /\ localStorage' = localStorage
          /\ ~threw'
C2_FinishedIgnoresGuesses == [][C2_Step]_vars

\* a finished round that has received a further guess
C2_Witness ==
    /\ Finished
    /\ Len(guesses) = TOTAL_QUESTIONS
    /\ late >= 1
    /\ ~threw

\* C3: when the five guesses of a round are in, correct is the number of them
\* whose point lies in the bounds of the location at the guess's position, it is
\* within 0..5, and the closing prompt shows that number.
Hits == {i \in DOMAIN guesses : Contained(guesses[i], LOCATIONS[i].bounds)}
C3_CorrectCountsHits ==
    Len(guesses) = TOTAL_QUESTIONS =>
        /\ state.correct = Cardinality(Hits)
        /\ state.correct \in 0..5
        /\ dom.promptText = "Done. You got " \o DigitChars[Cardinality(Hits) + 1]
                                \o " out of 5 correct."

\* a round of five right guesses
C3_Witness ==
    /\ Len(guesses) = TOTAL_QUESTIONS
    /\ Cardinality(Hits) = 5
    /\ state.correct = 5

\* a stored value is a number when it is a run of decimal digits, white space
\* around it allowed; its value is that of the digits
IsDigit(c) == c \in Digits
NumericText(stored) ==
    /\ stored # null
    /\ LET raw == ValueOf(stored) IN
       \E i, j \in DOMAIN raw :
           /\ i <= j
           /\ \A k \in DOMAIN raw : IF k \in i..j THEN raw[k] \in Digits ELSE raw[k] = " "
NumericValue(stored) == DecimalValue(SelectSeq(ValueOf(stored), IsDigit))

\* the guess that ends a round
FinishStep ==
    /\ map # undefined
    /\ state.index = TOTAL_QUESTIONS - 1
    /\ state'.index = TOTAL_QUESTIONS

\* C4: when a round finishes, the stored best time is overwritten with the
\* round's elapsed seconds, and the round reported as a new best, if and only if
\* no best time is stored or the elapsed time is strictly less than it; otherwise
\* the stored value stays as it is and no new best is reported.
C4_Step ==
    FinishStep =>
        LET seconds == (now - ValueOf(state.startedAtMs)) \div MsPerSecond
            beats == ~NumericText(localStorage) \/ seconds < NumericValue(localStorage)
        IN IF beats
           THEN /\ localStorage' = Some(StringOf(seconds))
                /\ dom'.toast = FinishedToast(state'.correct, seconds, TRUE)
           ELSE /\ localStorage' = localStorage
                /\ dom'.toast = FinishedToast(state'.correct, seconds, FALSE)
C4_BestUpdatedIffStrictlyLess == [][C4_Step]_vars

\* a round finished at once from a store that held only white space: the best
\* time was neither stored nor reported
C4_Witness ==
    /\ Finished
    /\ localStorage = Some(<<" ">>)
    /\ dom.toast = FinishedToast(state.correct, 0, FALSE)

\* C5: reset is accepted in every state once the page is set up (mid-round,
\* Finished, right after a reset) and leaves the quiz Running with index = 0,
\* correct = 0, startedAt the time of the reset, the timer armed, no feedback
\* overlay on the map and the prompt showing the first location's name.
C5_AfterReset ==
    /\ Running'
    /\ state'.index = 0
    /\ state'.correct = 0
    /\ state'.startedAtMs = Some(now)
    /\ now' = now
    /\ state'.timerId # null
    /\ intervals' = {ValueOf(state'.timerId)}
    /\ currentRect' = null
    /\ clickMarker' = null
    /\ dom'.promptText = LOCATIONS[1].name
C5_ResetAlwaysRestarts ==
    /\ [](map # undefined => ENABLED ResetGame)
    /\ [][ResetGame => C5_AfterReset]_vars

\* a reset that followed a finished round with a new best time of 0 seconds
C5_Witness ==
    /\ localStorage = Some(<<"0">>)
    /\ state.index = 0
    /\ state.correct = 0
    /\ guesses = <<>>
    /\ state.startedAtMs = Some(now)
    /\ currentRect = null
    /\ "detached" \in flashTimers

\* C6: reading the best time gives null whenever the stored value is missing or
\* is not a number (empty, arbitrary text, white space only), and gives a number
\* only when the stored value is numeric.
C6_NullUnlessNumeric ==
    output # NoCall /\ output[1] = "getBestSeconds" =>
        /\ ~NumericText(output[2]) => output[3] = null
        /\ output[3] # null => NumericText(output[2])

\* C7: pointInBounds is true exactly when south <= lat <= north and
\* west <= lng <= east on the ordered box; in particular it is true for a point
\* on any of the four edges of the ordered box.
C7_InsideIffWithinEdges ==
    output # NoCall /\ output[1] = "pointInBounds" =>
        LET north == Hi(input.b.north, input.b.south)
            south == Lo(input.b.north, input.b.south)
            east == Hi(input.b.east, input.b.west)
            west == Lo(input.b.east, input.b.west)
            lat == input.p.lat
            lng == input.p.lng
            onEdge == \/ lat \in {north, south} /\ west <= lng /\ lng <= east
                      \/ lng \in {east, west} /\ south <= lat /\ lat <= north
        IN /\ output[2] <=> (south <= lat /\ lat <= north /\ west <= lng /\ lng <= east)
           /\ onEdge => output[2]

\* a point on the northern edge of a box given with north below south, and
\* strictly inside its other edges
C7_Witness ==
    /\ output # NoCall /\ output[1] = "pointInBounds"
    /\ output[2]
    /\ input.b.north < input.b.south
    /\ input.p.lat = input.b.south
    /\ input.b.west < input.p.lng /\ input.p.lng < input.b.east

\* C8: for any four finite values normalizeBounds gives a box with
\* north >= south and east >= west, and applying it to its own result changes
\* nothing.
C8_NormalizeOrdersAndIsIdempotent ==
    output # NoCall /\ output[1] = "normalizeBounds" =>
        /\ output[2].north >= output[2].south
        /\ output[2].east >= output[2].west
        /\ output[3] = output[2]

\* a box given with both pairs of edges exchanged
C8_Witness ==
    /\ output # NoCall /\ output[1] = "normalizeBounds"
    /\ input.b.north < input.b.south
    /\ input.b.east < input.b.west
    /\ output[2] # input.b

\* C9: pointInBounds gives the same result for a box, for the box with north and
\* south exchanged, with east and west exchanged, and with both exchanged.
C9_SwapInvariant ==
    output # NoCall /\ output[1] = "swapped" =>
        /\ output[3] = output[2]
        /\ output[4] = output[2]
        /\ output[5] = output[2]

\* a point inside a box whose edges all differ
C9_Witness ==
    /\ output # NoCall /\ output[1] = "swapped"
    /\ output[2]
    /\ input.b.north # input.b.south
    /\ input.b.east # input.b.west

\* C10: for 0 <= s < 6000, formatTime(s) is floor(s / 60) in two digits, a
\* colon, and s mod 60 in two digits: 0 gives "00:00", 65 gives "01:05", 599
\* gives "09:59".
TwoDigits(n) == DigitChars[(n \div 10) + 1] \o DigitChars[(n % 10) + 1]
C10_FormatIsMMSS ==
    output # NoCall /\ output[1] = "formatTime" /\ input < 100 * 60 =>
        /\ output[2] = TwoDigits(input \div 60) \o ":" \o TwoDigits(input % 60)
        /\ input = 0 => output[2] = "00:00"
        /\ input = 65 => output[2] = "01:05"
        /\ input = 599 => output[2] = "09:59"

\* formatTime(599)
C10_Witness ==
    /\ input = 599
    /\ output = <<"formatTime", "09:59">>

\* C11: at most one interval tick is armed at any time: a reset clears the
\* previous round's before arming a new one, finishing a round clears it, and
\* one is armed exactly when the quiz is Running, under state.timerId.
C11_OneTickWhileRunning ==
    /\ Cardinality(intervals) <= 1
    /\ Running <=> intervals # {}
    /\ Running => intervals = {ValueOf(state.timerId)}
    /\ ~Running => state.timerId = null

\* a round begun by a reset after an earlier round was finished
C11_Witness ==
    /\ Running
    /\ localStorage = Some(<<"0">>)
    /\ Len(guesses) = 1
    /\ Cardinality(intervals) = 1

\* C12: an interval tick, whenever it fires, leaves index, correct, startedAt,
\* the timer handle, the armed interval and the stored best time as they were;
\* it only puts the elapsed time, read from the clock, in #timer.
C12_Step ==
    Tick =>
        /\ state' = state
        /\ intervals' = intervals
        /\ localStorage' = localStorage
        /\ now' = now
        /\ LET seconds == (now - ValueOf(state.startedAtMs)) \div MsPerSecond IN
           dom' = [dom EXCEPT !.timer = TwoDigits(seconds \div 60) \o ":"
                                            \o TwoDigits(seconds % 60)]
C12_TickOnlyDisplays == [][C12_Step]_vars

\* a tick has shown one second of a round that is still under way
C12_Witness ==
    /\ Running
    /\ dom.timer = "00:01"
    /\ state.index = 1
    /\ state.startedAtMs = Some(PageLoadMs)

\* C13 as stated: stopping the timer clears the tick and keeps the start time,
\* the elapsed time of a finished round is floor((now - startedAt) / 1000)
\* counted from the latest reset, and a call of elapsedSeconds (by a tick or by
\* the finish) returns 0 only if no start time was ever recorded.
C13_FinishKeepsStart ==
    FinishStep =>
        /\ state'.startedAtMs = state.startedAtMs
        /\ state.startedAtMs # null
        /\ state'.timerId = null
        /\ intervals' = {}
        /\ LET seconds == (now - ValueOf(state.startedAtMs)) \div MsPerSecond
               clock == TwoDigits(seconds \div 60) \o ":" \o TwoDigits(seconds % 60)
           IN \E correct \in {"0", "1", "2", "3", "4", "5"} :
                 \E suffix \in {"", " (NEW BEST)"} :
                    dom'.toast = "Finished: " \o correct \o "/5 in " \o clock \o suffix
C13_StartSetByResetOnly ==
    state'.startedAtMs # state.startedAtMs =>
        /\ InitMap \/ ResetGame
        /\ state'.startedAtMs = Some(now')
C13_ZeroOnlyIfNeverStarted ==
    (Tick \/ FinishStep) /\ ElapsedAt(state, now) = 0 => state.startedAtMs = null
C13_ElapsedZeroOnlyUnstarted ==
    [][C13_FinishKeepsStart /\ C13_StartSetByResetOnly
         /\ C13_ZeroOnlyIfNeverStarted]_vars

\* C13 amended: as above, except that elapsedSeconds also returns 0 throughout
\* the first second after a reset; it returns 0 without a subtraction exactly
\* when no start time is recorded, which is the case only before the page's
\* first reset.
C13_ElapsedFromLatestReset ==
    [][/\ C13_FinishKeepsStart
       /\ C13_StartSetByResetOnly
       /\ (state.startedAtMs = null <=> map = undefined)
       /\ (Tick \/ FinishStep) /\ ElapsedAt(state, now) = 0 =>
              now - ValueOf(state.startedAtMs) < MsPerSecond]_vars

\* a round finished one second after its reset, the tick stopped
C13_Witness ==
    /\ Finished
    /\ intervals = {}
    /\ state.startedAtMs = Some(PageLoadMs)
    /\ dom.toast = "Finished: 0/5 in 00:01"

\* C14: a guess whose latitude or longitude is NaN or undefined does not throw;
\* it is judged wrong (red rectangle, "Wrong!" unless it ends the round),
\* correct stays as it was and index goes up by one.
C14_Step ==
    \A latLng \in NaNPoints :
        guesses' = Append(guesses, latLng) =>
            /\ ~threw'
            /\ state'.correct = state.correct
            /\ state'.index = state.index + 1
            /\ currentRect' # null
            /\ ValueOf(currentRect').color = "#b00020"
            /\ clickMarker' = Some(latLng)
            /\ state'.index < TOTAL_QUESTIONS => dom'.toast = "Wrong!"
C14_NaNGuessIsWrong == [][C14_Step]_vars

\* the first question answered in Black House, the second by a guess without
\* a latitude
C14_Witness ==
    /\ guesses = <<InBlackHouse, NoLat>>
    /\ state.index = 2
    /\ state.correct = 1
    /\ dom.toast = "Wrong!"

\* C15: a reset, whenever it comes, leaves nothing of the round before it: no
\* rectangle or marker, no flash timeout still to fire, no tick but the new
\* round's own, and a score, index and start time that are those of a round
\* begun now.
C15_FreshRound ==
    /\ currentRect' = null
    /\ clickMarker' = null
    /\ state'.index = 0
    /\ state'.correct = 0
    /\ state'.startedAtMs = Some(now')
    /\ intervals' = {ValueOf(state'.timerId)}
    /\ dom'.score = "0"
    /\ dom'.timer = "00:00"
C15_ResetDiscardsAll == [][ResetGame => C15_FreshRound /\ flashTimers' = {}]_vars

\* the final summary of finishGame, in the prompt and in the toast
IsSummary(text) ==
    \E correct \in 0..TOTAL_QUESTIONS :
        text = "Done. You got " \o DigitChars[correct + 1] \o " out of 5 correct."
IsFinishedToast(text) ==
    \E correct \in 0..TOTAL_QUESTIONS, seconds \in 0..(ClockEndMs \div MsPerSecond),
       suffix \in {"", " (NEW BEST)"} :
        text = "Finished: " \o DigitChars[correct + 1] \o "/5 in "
                   \o TwoDigits(seconds \div 60) \o ":" \o TwoDigits(seconds % 60)
                   \o suffix

\* C16: the timer is stopped, the best time possibly written and the summary
\* shown on the guess that brings index to 5 and on no other step: not on a
\* reset, a tick, an earlier guess of a round (abandoned or not) or a guess
\* made once the round is finished.  A finished round has had that step once.
C16_Step ==
    /\ FinishStep =>
          /\ state.timerId # null
          /\ state'.timerId = null
          /\ intervals' = {}
          /\ IsSummary(dom'.promptText)
          /\ IsFinishedToast(dom'.toast)
          /\ dom'.qCount = "5 / 5"
          /\ localStorage' # localStorage =>
                 LET seconds == (now - ValueOf(state.startedAtMs)) \div MsPerSecond
                 IN localStorage' = Some(<<DigitChars[seconds + 1]>>)
    /\ ~FinishStep =>
          /\ localStorage' = localStorage
          /\ dom'.best # dom.best => InitMap
          /\ state.timerId # null => state'.timerId # null
          /\ IsSummary(dom'.promptText) => dom'.promptText = dom.promptText
          /\ IsFinishedToast(dom'.toast) => dom'.toast = dom.toast
    /\ Finished <=> IsSummary(dom.promptText)
    /\ Finished => state.timerId = null
C16_FinishOncePerRound == [][C16_Step]_vars

\* a round finished, its time stored, and a guess made after that ignored
C16_Witness ==
    /\ Finished
    /\ late = 1
    /\ guesses[1] = ChaparralCorner
    /\ IsSummary(dom.promptText)
    /\ IsFinishedToast(dom.toast)
    /\ localStorage = Some(<<"0">>)

\* the number of seconds a stored string of decimal digits stands for
IsSecondsText(stored) ==
    /\ stored # null
    /\ Len(ValueOf(stored)) > 0
    /\ \A i \in DOMAIN ValueOf(stored) : IsDigit(ValueOf(stored)[i])
    /\ Len(ValueOf(stored)) > 1 => ValueOf(stored)[1] # "0"
SecondsOf(stored) == DecimalValue(ValueOf(stored))

\* C17: from an empty store on, whatever is stored is the decimal text of a
\* whole number of seconds >= 0; it is written only as a round finishes; a
\* stored time never goes away and never grows; and after each finished round
\* it is the least elapsed time of the rounds finished so far, that is the
\* lesser of the time stored before the round and the round's own.
C17_Step ==
    /\ localStorage # null => IsSecondsText(localStorage) /\ SecondsOf(localStorage) >= 0
    /\ localStorage' # localStorage => FinishStep
    /\ localStorage # null =>
           /\ localStorage' # null
           /\ SecondsOf(localStorage') <= SecondsOf(localStorage)
    /\ FinishStep =>
           LET seconds == (now - ValueOf(state.startedAtMs)) \div MsPerSecond IN
           /\ IsSecondsText(localStorage')
           /\ SecondsOf(localStorage') =
                  IF localStorage = null THEN seconds
                  ELSE Min(SecondsOf(localStorage), seconds)
C17_BestIsLeastElapsed == [][C17_Step]_vars

\* a round has finished in a second when an earlier one had finished within
\* its first second: the earlier time is kept
C17_Witness ==
    /\ Finished
    /\ localStorage = Some(<<"0">>)
    /\ dom.toast = "Finished: 1/5 in 00:01"
    /\ dom.best = "00:00"

\* the location whose name the prompt shows
Prompted == CHOOSE i \in DOMAIN LOCATIONS : LOCATIONS[i].name = dom.promptText

\* C18: between events, while the quiz is Running, the prompt shows the name
\* of LOCATIONS[index] and the header shows question index + 1, one of 1..5;
\* the next guess is judged against the bounds of the location so named.
C18_Step ==
    /\ Running =>
           /\ dom.promptText = LOCATIONS[state.index + 1].name
           /\ dom.qCount = DigitChars[state.index + 2] \o " / 5"
           /\ state.index + 1 \in 1..5
           /\ \A i \in DOMAIN LOCATIONS :
                  LOCATIONS[i].name = dom.promptText => i = state.index + 1
    /\ Running /\ Len(guesses') = Len(guesses) + 1 =>
           LET latLng == guesses'[Len(guesses')]
               inside == Contained(latLng, LOCATIONS[Prompted].bounds)
           IN /\ state'.correct = state.correct + (IF inside THEN 1 ELSE 0)
              /\ ValueOf(currentRect').bounds.north
                     = Hi(LOCATIONS[Prompted].bounds.north, LOCATIONS[Prompted].bounds.south)
              /\ ValueOf(currentRect').color = IF inside THEN "#1f7a1f" ELSE "#b00020"
C18_PromptNamesJudgedLocation == [][C18_Step]_vars

\* the second question, asked after a right answer to the first
C18_Witness ==
    /\ Running
    /\ state.index = 1
    /\ state.correct = 1
    /\ dom.promptText = "Chaparral Hall"
    /\ dom.qCount = "2 / 5"

\* C19: once the page is set up, that is after every reset and every handled
\* guess, the last of a round included, #score shows state.correct.
C19_ScoreShown ==
    map # undefined => dom.score = DigitChars[state.correct + 1]

====
